---- MODULE Spec2Model ----
(***************************************************************************)
(* Model of mcp_server.py: a FastAPI application with one route, GET /sse, *)
(* whose handler builds a fixed dictionary and returns an                  *)
(* EventSourceResponse over a one-item generator of json.dumps(data).      *)
(*                                                                         *)
(* The application code is 23 lines; the router, the SSE response class    *)
(* and the HTTP server are the libraries it calls.  Their behaviour is     *)
(* modelled as far as the application invokes it: route matching, the      *)
(* framing of a yielded item as a server-sent event, the ASGI message      *)
(* sequence of a streamed response and the cancellation of a stream when   *)
(* the client goes away.  The keep-alive ping of the SSE response (a       *)
(* comment line every 15 s of an open stream) and process shutdown are     *)
(* not modelled: the model has no clock.                                   *)
(***************************************************************************)
EXTENDS Naturals, Sequences, FiniteSets, TLC

\* Number of request slots; requests are numbered in their order of arrival.
MaxRequests == 2

Requests == 1..MaxRequests

Null == [t |-> "none"]

\* A URL path: its segments, and whether it ends in a slash.
Path(segs, slash) == [segs |-> segs, slash |-> slash]

\* The requests a client may send.
Methods == {"GET", "POST", "HEAD"}
Paths == {Path(<<"sse">>, FALSE), Path(<<"sse">>, TRUE),
          Path(<<"docs">>, FALSE), Path(<<"other">>, FALSE)}
NoRequest == [method |-> "", path |-> Path(<<>>, FALSE)]

VARIABLES
    routes,         \* app.router.routes: the route table of the application
    module_globals, \* names bound at module level of mcp_server
    pc,             \* pc[r]: position of request r's handling task
    req,            \* req[r]: method and path of request r
    data,           \* data[r]: the handler's local `data` (Null when no frame holds it)
    gen,            \* gen[r]: iterations left in the generator's range(1); 0 without generator
    out,            \* out[r]: ASGI messages the application has sent for r
    delivered,      \* delivered[r]: how many of out[r] reached the client
    conn,           \* conn[r]: "open" or "gone" (client disconnected)
    prior           \* history: prior[r] = the requests whose handling had ended when r arrived

vars == <<routes, module_globals, pc, req, data, gen, out, delivered, conn, prior>>

-----------------------------------------------------------------------------
(* Python values: str, list and dict (insertion-ordered pairs), tagged.      *)

PyStr(s) == [t |-> "str", v |-> s]
PyList(items) == [t |-> "list", v |-> items]
PyDict(pairs) == [t |-> "dict", v |-> pairs]
\* the str json.dumps returns, kept as its tokens
PyText(toks) == [t |-> "text", v |-> toks]

\* Mutant: vector_db_ids bound to the bare string instead of a one-element list.
DataLiteral_flat ==
    PyDict(<< <<"toolgroups",
        PyList(<< PyDict(<< <<"name", PyStr("rag-dogs")>>,
                            <<"args", PyDict(<< <<"vector_db_ids",
                                  PyStr("toy_faiss_db")>> >>)>> >>) >>)>> >>)

\* The dict literal bound to `data` in mcp_context.
DataLiteral ==
    PyDict(<< <<"toolgroups",
        PyList(<< PyDict(<< <<"name", PyStr("rag-dogs")>>,
                            <<"args", PyDict(<< <<"vector_db_ids",
                                  PyList(<< PyStr("toy_faiss_db") >>)>> >>)>> >>) >>)>> >>)

-----------------------------------------------------------------------------
(* json.dumps with its default separators (", " and ": "), as a sequence of *)
(* tokens; Text is the characters of a token sequence.                      *)

Punct(k, s) == [k |-> k, s |-> s]
StrTok(s) == [k |-> "string", s |-> s]

RECURSIVE json_dumps(_)
RECURSIVE DumpItems(_, _)
RECURSIVE DumpPairs(_, _)

DumpItems(items, i) ==
    IF i > Len(items) THEN <<>>
    ELSE (IF i > 1 THEN <<Punct("comma", ", ")>> ELSE <<>>)
         \o json_dumps(items[i]) \o DumpItems(items, i + 1)

DumpPairs(pairs, i) ==
    IF i > Len(pairs) THEN <<>>
    ELSE (IF i > 1 THEN <<Punct("comma", ", ")>> ELSE <<>>)
         \o <<StrTok(pairs[i][1]), Punct("colon", ": ")>>
         \o json_dumps(pairs[i][2]) \o DumpPairs(pairs, i + 1)

json_dumps(v) ==
    CASE v.t = "str"  -> <<StrTok(v.v)>>
      [] v.t = "list" -> <<Punct("lbracket", "[")>> \o DumpItems(v.v, 1)
                         \o <<Punct("rbracket", "]")>>
      [] v.t = "dict" -> <<Punct("lbrace", "{")>> \o DumpPairs(v.v, 1)
                         \o <<Punct("rbrace", "}")>>

RECURSIVE Text(_)
Text(toks) ==
    IF toks = <<>> THEN ""
    ELSE (IF Head(toks).k = "string" THEN "\"" \o Head(toks).s \o "\""
          ELSE Head(toks).s) \o Text(Tail(toks))

-----------------------------------------------------------------------------
(* A JSON reader over the tokens (what a client's JSON parser does with the *)
(* data field).  Each Parse* returns [ok, v, rest].                         *)

Fail == [ok |-> FALSE, v |-> Null, rest |-> <<>>]
Ok(v, rest) == [ok |-> TRUE, v |-> v, rest |-> rest]
IsTok(toks, k) == toks # <<>> /\ Head(toks).k = k

RECURSIVE ParseValue(_)
RECURSIVE ParseItems(_, _)
RECURSIVE ParsePairs(_, _)

\* after "[" and the items read so far
ParseItems(toks, acc) ==
    LET e == ParseValue(toks) IN
    IF ~e.ok THEN Fail
    ELSE IF IsTok(e.rest, "comma") THEN ParseItems(Tail(e.rest), Append(acc, e.v))
    ELSE IF IsTok(e.rest, "rbracket") THEN Ok(PyList(Append(acc, e.v)), Tail(e.rest))
    ELSE Fail

\* after "{" and the pairs read so far
ParsePairs(toks, acc) ==
    IF ~(IsTok(toks, "string") /\ IsTok(Tail(toks), "colon")) THEN Fail
    ELSE LET e == ParseValue(Tail(Tail(toks))) IN
         IF ~e.ok THEN Fail
         ELSE LET acc2 == Append(acc, <<Head(toks).s, e.v>>) IN
              IF IsTok(e.rest, "comma") THEN ParsePairs(Tail(e.rest), acc2)
              ELSE IF IsTok(e.rest, "rbrace") THEN Ok(PyDict(acc2), Tail(e.rest))
              ELSE Fail

ParseValue(toks) ==
    IF toks = <<>> THEN Fail
    ELSE CASE Head(toks).k = "string" -> Ok(PyStr(Head(toks).s), Tail(toks))
           [] Head(toks).k = "lbracket" ->
                IF IsTok(Tail(toks), "rbracket") THEN Ok(PyList(<<>>), Tail(Tail(toks)))
                ELSE ParseItems(Tail(toks), <<>>)
           [] Head(toks).k = "lbrace" ->
                IF IsTok(Tail(toks), "rbrace") THEN Ok(PyDict(<<>>), Tail(Tail(toks)))
                ELSE ParsePairs(Tail(toks), <<>>)
           [] OTHER -> Fail

json_loads(toks) ==
    LET e == ParseValue(toks) IN IF e.ok /\ e.rest = <<>> THEN e.v ELSE Null

\* The value a Python (or JSON) structure denotes: a dict is a mapping (the last
\* pair of a key wins, order is immaterial), a list a sequence.
RECURSIVE Denote(_)
Denote(v) ==
    CASE v.t = "str"  -> v.v
      [] v.t = "list" -> [i \in 1..Len(v.v) |-> Denote(v.v[i])]
      [] v.t = "dict" ->
            [k \in {v.v[i][1] : i \in 1..Len(v.v)} |->
                Denote(v.v[CHOOSE i \in 1..Len(v.v) :
                              /\ v.v[i][1] = k
                              /\ \A j \in (i + 1)..Len(v.v) : v.v[j][1] # k][2])]
      [] OTHER -> "undefined"

-----------------------------------------------------------------------------
(* sse_starlette: a yielded item becomes one server-sent event.             *)

SSEFields == {"data", "event", "id", "retry", "comment"}
RawTok(s) == <<Punct("raw", s)>>

\* ServerSentEvent.encode(): the field lines of one event, in the order the
\* encoder writes them; a field that is None writes no line.
Encode(ev) ==
    (IF ev.id # Null THEN << <<"id", ev.id.v>> >> ELSE <<>>)
    \o (IF ev.event # Null THEN << <<"event", ev.event.v>> >> ELSE <<>>)
    \o (IF ev.data # Null THEN << <<"data", ev.data.v>> >> ELSE <<>>)

\* ensure_bytes(): a str is the data of an event with no other field; a dict is
\* ServerSentEvent(**dict), a TypeError for a key that is no field of it.
ensure_bytes(item) ==
    CASE item.t = "text" ->
            [ok |-> TRUE, lines |-> Encode([id |-> Null, event |-> Null, data |-> item])]
      [] item.t = "dict" ->
            IF \A i \in 1..Len(item.v) : item.v[i][1] \in SSEFields
            THEN [ok |-> TRUE,
                  lines |-> Encode([f \in {"id", "event", "data"} |->
                      IF \E i \in 1..Len(item.v) : item.v[i][1] = f
                      THEN CHOOSE x \in {item.v[i][2] : i \in 1..Len(item.v)} :
                               \E i \in 1..Len(item.v) : item.v[i] = <<f, x>>
                      ELSE Null])]
            ELSE [ok |-> FALSE, lines |-> <<>>]
      [] OTHER -> [ok |-> FALSE, lines |-> <<>>]

\* The characters of a frame on the wire: "field: value" lines, each ended by
\* the separator, and one more separator ending the event.
RECURSIVE WireLines(_)
WireLines(lines) ==
    IF lines = <<>> THEN ""
    ELSE Head(lines)[1] \o ": " \o Text(Head(lines)[2]) \o "\r\n" \o WireLines(Tail(lines))
Wire(lines) == IF lines = <<>> THEN "" ELSE WireLines(lines) \o "\r\n"

-----------------------------------------------------------------------------
(* ASGI messages of a response.                                             *)

\* http.response.start: the status and the media type of the content-type header.
StartMsg(status, media) ==
    [type |-> "start", status |-> status, media |-> media, lines |-> <<>>, more |-> TRUE]
\* http.response.body: for a streamed event its field lines; more_body.
BodyMsg(lines, more) ==
    [type |-> "body", status |-> 0, media |-> "", lines |-> lines, more |-> more]

\* EventSourceResponse.media_type
EventStream == "text/event-stream"

-----------------------------------------------------------------------------
(* The application object and its routes.                                   *)

Route(path, methods, endpoint) ==
    [path |-> path, methods |-> methods, endpoint |-> endpoint]

\* app = FastAPI(): the routes the constructor installs with its default
\* arguments (added as plain routes, so a GET route also answers HEAD).
FastAPI ==
    << Route(Path(<<"openapi.json">>, FALSE), {"GET", "HEAD"}, "openapi"),
       Route(Path(<<"docs">>, FALSE), {"GET", "HEAD"}, "swagger_ui_html"),
       Route(Path(<<"docs", "oauth2-redirect">>, FALSE), {"GET", "HEAD"},
             "swagger_ui_redirect"),
       Route(Path(<<"redoc">>, FALSE), {"GET", "HEAD"}, "redoc_html") >>

\* Mutant: the route registered for POST as well as GET.
app_get_and_post(table, path, endpoint) ==
    Append(table, Route(path, {"GET", "POST"}, endpoint))

\* @app.get("/sse"): an API route for GET only, appended to the table.
app_get(table, path, endpoint) == Append(table, Route(path, {"GET"}, endpoint))

\* The route table once the module is imported.
AppRoutes == app_get(FastAPI, Path(<<"sse">>, FALSE), "mcp_context")

\* Names bound at module level once the module is imported.
ModuleNames == {"FastAPI", "EventSourceResponse", "json", "app", "mcp_context"}

\* Route.matches(): path and method.
Match(route, rq) ==
    IF route.path # rq.path THEN "NONE"
    ELSE IF rq.method \in route.methods THEN "FULL" ELSE "PARTIAL"

\* Router.app(): the first full match is called; else the first partial match
\* answers 405; else a path that matches with its trailing slash toggled is
\* redirected; else 404.
Resolve(table, rq) ==
    LET full == {i \in 1..Len(table) : Match(table[i], rq) = "FULL"}
        part == {i \in 1..Len(table) : Match(table[i], rq) = "PARTIAL"}
        toggled == [rq EXCEPT !.path.slash = ~rq.path.slash]
    IN  IF full # {}
        THEN [kind |-> "call",
              endpoint |-> table[CHOOSE i \in full : \A j \in full : i <= j].endpoint]
        ELSE IF part # {} THEN [kind |-> "405", endpoint |-> ""]
        ELSE IF rq.path.segs # <<>>
                /\ \E i \in 1..Len(table) : Match(table[i], toggled) # "NONE"
        THEN [kind |-> "307", endpoint |-> ""]
        ELSE [kind |-> "404", endpoint |-> ""]

-----------------------------------------------------------------------------
(* State machine.                                                           *)

Init ==
    /\ routes = AppRoutes
    /\ module_globals = ModuleNames
    /\ pc = [r \in Requests |-> "idle"]
    /\ req = [r \in Requests |-> NoRequest]
    /\ data = [r \in Requests |-> Null]
    /\ gen = [r \in Requests |-> 0]
    /\ out = [r \in Requests |-> <<>>]
    /\ delivered = [r \in Requests |-> 0]
    /\ conn = [r \in Requests |-> "open"]
    /\ prior = [r \in Requests |-> {}]

\* The server's send(): the message is written to the connection unless the
\* client has gone.
Send(r, msgs) ==
    /\ out' = [out EXCEPT ![r] = out[r] \o msgs]
    /\ delivered' = [delivered EXCEPT ![r] =
                        IF conn[r] = "open" THEN delivered[r] + Len(msgs) ELSE delivered[r]]

\* Positions at which the handling of a request is over.
Ended == {"done", "closed", "aborted", "crashed"}

\* A client sends a request; the server accepts the connection.
Arrive(r, m, p) ==
    /\ pc[r] = "idle"
    /\ \A q \in Requests : q < r => pc[q] # "idle"
    /\ req' = [req EXCEPT ![r] = [method |-> m, path |-> p]]
    /\ pc' = [pc EXCEPT ![r] = "accepted"]
    /\ prior' = [prior EXCEPT ![r] = {q \in Requests : pc[q] \in Ended}]
    /\ UNCHANGED <<routes, module_globals, data, gen, out, delivered, conn>>

\* The whole of a response that is not streamed.
Respond(r, status, media) ==
    /\ Send(r, <<StartMsg(status, media), BodyMsg(<<>>, FALSE)>>)
    /\ pc' = [pc EXCEPT ![r] = "done"]
    /\ UNCHANGED <<prior, routes, module_globals, req, data, gen, conn>>

\* Mutant: the generator runs over range(2).
mcp_context_range2(r) ==
    /\ data' = [data EXCEPT ![r] = DataLiteral]
    /\ gen' = [gen EXCEPT ![r] = 2]
    /\ pc' = [pc EXCEPT ![r] = "responding"]
    /\ UNCHANGED <<prior, routes, module_globals, req, out, delivered, conn>>

\* Mutant: one generator built at module level and shared by every request;
\* whoever iterates it first exhausts it.
mcp_context_shared(r) ==
    /\ data' = [data EXCEPT ![r] = DataLiteral]
    /\ gen' = [gen EXCEPT ![r] =
                  IF \E q \in Requests \ {r} : pc[q] \notin {"idle", "accepted", "done"}
                  THEN 0 ELSE 1]
    /\ pc' = [pc EXCEPT ![r] = "responding"]
    /\ UNCHANGED <<prior, routes, module_globals, req, out, delivered, conn>>

\* Mutant: `data` kept at module level and a toolgroup appended on every call.
mcp_context_appending(r) ==
    /\ data' = [data EXCEPT ![r] =
                  IF \E q \in Requests \ {r} : pc[q] \notin {"idle", "accepted", "done"}
                  THEN PyDict(<< <<"toolgroups",
                           PyList(DataLiteral.v[1][2].v \o DataLiteral.v[1][2].v)>> >>)
                  ELSE DataLiteral]
    /\ gen' = [gen EXCEPT ![r] = 1]
    /\ pc' = [pc EXCEPT ![r] = "responding"]
    /\ UNCHANGED <<prior, routes, module_globals, req, out, delivered, conn>>

\* Mutant: `data` declared global, so that the call binds a module-level name.
mcp_context_global(r) ==
    /\ data' = [data EXCEPT ![r] = DataLiteral]
    /\ gen' = [gen EXCEPT ![r] = 1]
    /\ pc' = [pc EXCEPT ![r] = "responding"]
    /\ module_globals' = module_globals \cup {"data"}
    /\ UNCHANGED <<prior, routes, req, out, delivered, conn>>

\* mcp_context(): bind `data`, build the generator over range(1) and return
\* the EventSourceResponse; nothing is serialized or sent yet.
mcp_context(r) ==
    /\ data' = [data EXCEPT ![r] = DataLiteral]
    /\ gen' = [gen EXCEPT ![r] = 1]
    /\ pc' = [pc EXCEPT ![r] = "responding"]
    /\ UNCHANGED <<prior, routes, module_globals, req, out, delivered, conn>>

CallHandler(r) ==
    /\ pc[r] = "accepted"
    /\ Resolve(routes, req[r]) = [kind |-> "call", endpoint |-> "mcp_context"]
    /\ mcp_context(r)

\* One of the documentation routes FastAPI() installed.
ServeBuiltin(r) ==
    /\ pc[r] = "accepted"
    /\ Resolve(routes, req[r]).kind = "call"
    /\ Resolve(routes, req[r]).endpoint # "mcp_context"
    /\ Respond(r, 200, "text/html")

MethodNotAllowed(r) ==
    /\ pc[r] = "accepted"
    /\ Resolve(routes, req[r]).kind = "405"
    /\ Respond(r, 405, "application/json")

RedirectSlashes(r) ==
    /\ pc[r] = "accepted"
    /\ Resolve(routes, req[r]).kind = "307"
    /\ Respond(r, 307, "")

NotFound(r) ==
    /\ pc[r] = "accepted"
    /\ Resolve(routes, req[r]).kind = "404"
    /\ Respond(r, 404, "application/json")

\* EventSourceResponse: http.response.start.
SendStart(r) ==
    /\ pc[r] = "responding"
    /\ Send(r, <<StartMsg(200, EventStream)>>)
    /\ pc' = [pc EXCEPT ![r] = "streaming"]
    /\ UNCHANGED <<prior, routes, module_globals, req, data, gen, conn>>

\* Mutant: the item is a dict naming the event.
NextItem_named(r) ==
    PyDict(<< <<"event", PyText(RawTok("context"))>>,
              <<"data", PyText(json_dumps(data[r]))>> >>)

\* The generator's next item: json.dumps(data) for one value of range(1).
NextItem(r) == PyText(json_dumps(data[r]))

\* One turn of the response's loop over the generator: the item is framed and
\* sent; an item that cannot be framed raises and the task dies.
StreamNext(r) ==
    /\ pc[r] = "streaming"
    /\ gen[r] > 0
    /\ gen' = [gen EXCEPT ![r] = gen[r] - 1]
    /\ LET chunk == ensure_bytes(NextItem(r)) IN
        IF chunk.ok
        THEN /\ Send(r, <<BodyMsg(chunk.lines, TRUE)>>)
             /\ UNCHANGED <<pc, data>>
        ELSE /\ pc' = [pc EXCEPT ![r] = "crashed"]
             /\ data' = [data EXCEPT ![r] = Null]
             /\ UNCHANGED <<out, delivered>>
    /\ UNCHANGED <<prior, routes, module_globals, req, conn>>

\* Mutant: a long-lived stream; the exhausted generator is not noticed and the
\* response stays open.
StreamEnd_keepalive(r) ==
    /\ pc[r] = "streaming"
    /\ gen[r] = 0
    /\ UNCHANGED vars

\* The generator is exhausted: its frame (and `data`) is released and the
\* response sends the final empty body, which ends the stream.
StreamEnd(r) ==
    /\ pc[r] = "streaming"
    /\ gen[r] = 0
    /\ Send(r, <<BodyMsg(<<>>, FALSE)>>)
    /\ data' = [data EXCEPT ![r] = Null]
    /\ pc' = [pc EXCEPT ![r] = "closed"]
    /\ UNCHANGED <<prior, routes, module_globals, req, gen, conn>>

\* The client closes the connection while its stream is being answered.
ClientDisconnect(r) ==
    /\ pc[r] \in {"responding", "streaming"}
    /\ conn[r] = "open"
    /\ conn' = [conn EXCEPT ![r] = "gone"]
    /\ UNCHANGED <<prior, routes, module_globals, pc, req, data, gen, out, delivered>>

\* Mutant: one cancel scope for all responses; a disconnect cancels every stream.
DetectDisconnect_all(r) ==
    /\ pc[r] \in {"responding", "streaming"}
    /\ conn[r] = "gone"
    /\ pc' = [q \in Requests |->
                 IF pc[q] \in {"responding", "streaming"} THEN "aborted" ELSE pc[q]]
    /\ gen' = [q \in Requests |->
                 IF pc[q] \in {"responding", "streaming"} THEN 0 ELSE gen[q]]
    /\ data' = [q \in Requests |->
                 IF pc[q] \in {"responding", "streaming"} THEN Null ELSE data[q]]
    /\ UNCHANGED <<prior, routes, module_globals, req, out, delivered, conn>>

\* The response's disconnect listener sees http.disconnect and cancels the
\* streaming task of that response; the generator is closed unfinished.
DetectDisconnect(r) ==
    /\ pc[r] \in {"responding", "streaming"}
    /\ conn[r] = "gone"
    /\ pc' = [pc EXCEPT ![r] = "aborted"]
    /\ gen' = [gen EXCEPT ![r] = 0]
    /\ data' = [data EXCEPT ![r] = Null]
    /\ UNCHANGED <<prior, routes, module_globals, req, out, delivered, conn>>

Next ==
    \E r \in Requests :
        \/ \E m \in Methods, p \in Paths : Arrive(r, m, p)
        \/ CallHandler(r)
        \/ ServeBuiltin(r)
        \/ MethodNotAllowed(r)
        \/ RedirectSlashes(r)
        \/ NotFound(r)
        \/ SendStart(r)
        \/ StreamNext(r)
        \/ StreamEnd(r)
        \/ ClientDisconnect(r)
        \/ DetectDisconnect(r)

Spec == Init /\ [][Next]_vars

\* The same server when every client asks for GET /sse, with the scheduling of
\* the event loop stated: a handling task that can take its next step
\* eventually takes it.  Clients are under no obligation to stay or to leave,
\* and the detection of a disconnect may come late or never.
SseNext ==
    \E r \in Requests :
        \/ Arrive(r, "GET", Path(<<"sse">>, FALSE))
        \/ CallHandler(r)
        \/ SendStart(r)
        \/ StreamNext(r)
        \/ StreamEnd(r)
        \/ ClientDisconnect(r)
        \/ DetectDisconnect(r)

StreamStep(r) == CallHandler(r) \/ SendStart(r) \/ StreamNext(r) \/ StreamEnd(r)

FairSpec == Init /\ [][SseNext]_vars /\ \A r \in Requests : WF_vars(StreamStep(r))

-----------------------------------------------------------------------------
(* What is observed of a request.                                           *)

IsSse(r) == req[r] = [method |-> "GET", path |-> Path(<<"sse">>, FALSE)]

\* A body message that carries a server-sent event.
IsEvent(msg) == msg.type = "body" /\ msg.lines # <<>>
\* The message that ends a response.
IsEnd(msg) == msg.type = "body" /\ ~msg.more

EventsIn(msgs) == {i \in 1..Len(msgs) : IsEvent(msgs[i])}
Emitted(r) == Cardinality(EventsIn(out[r]))
StreamClosed(r) == \E i \in 1..Len(out[r]) : IsEnd(out[r][i])

\* What the client of r has received.
ClientView(r) == SubSeq(out[r], 1, delivered[r])
Received(r) == Cardinality(EventsIn(ClientView(r)))

\* A client's event-stream reader: the data of an event is its data lines
\* joined by a newline.
RECURSIVE DataField(_)
DataField(lines) ==
    IF lines = <<>> THEN <<>>
    ELSE IF Head(lines)[1] # "data" THEN DataField(Tail(lines))
    ELSE LET rest == DataField(Tail(lines)) IN
         IF rest = <<>> THEN Head(lines)[2]
         ELSE Head(lines)[2] \o <<Punct("newline", "\n")>> \o rest

\* The bytes of the body of a response.
RECURSIVE BodyBytes(_)
BodyBytes(msgs) ==
    IF msgs = <<>> THEN ""
    ELSE (IF Head(msgs).type = "body" THEN Wire(Head(msgs).lines) ELSE "")
         \o BodyBytes(Tail(msgs))

\* A request for GET /sse answered in full to a client that stayed.
Complete(r) == IsSse(r) /\ pc[r] = "closed" /\ conn[r] = "open"

\* The JSON text and the structure of section 6 of the specification.
PayloadText ==
    "{\"toolgroups\": [{\"name\": \"rag-dogs\", \"args\": {\"vector_db_ids\": [\"toy_faiss_db\"]}}]}"
PayloadStructure ==
    [toolgroups |-> << [name |-> "rag-dogs",
                        args |-> [vector_db_ids |-> <<"toy_faiss_db">>]] >>]

\* Equality of two JSON values: same kind, and equal strings, lists equal item
\* by item, objects with the same keys and equal values (order immaterial).
Keys(d) == {d.v[i][1] : i \in 1..Len(d.v)}
Lookup(d, k) ==
    d.v[CHOOSE i \in 1..Len(d.v) :
            d.v[i][1] = k /\ \A j \in (i + 1)..Len(d.v) : d.v[j][1] # k][2]

RECURSIVE JsonEq(_, _)
JsonEq(a, b) ==
    /\ a.t = b.t
    /\ CASE a.t = "str"  -> a.v = b.v
          [] a.t = "list" -> /\ Len(a.v) = Len(b.v)
                             /\ \A i \in 1..Len(a.v) : JsonEq(a.v[i], b.v[i])
          [] a.t = "dict" -> /\ Keys(a) = Keys(b)
                             /\ \A k \in Keys(a) : JsonEq(Lookup(a, k), Lookup(b, k))
          [] OTHER -> FALSE

\* The same structure as a JSON value: one object with the key toolgroups, a
\* list of one object with name and args, args an object with vector_db_ids, a
\* list of one string.
PayloadJson ==
    PyDict(<< <<"toolgroups", PyList(<<
        PyDict(<< <<"args", PyDict(<< <<"vector_db_ids",
                               PyList(<<PyStr("toy_faiss_db")>>)>> >>)>>,
                  <<"name", PyStr("rag-dogs")>> >>) >>)>> >>)

-----------------------------------------------------------------------------
(* Claims.                                                                  *)

\* C1: on the stream of a request for GET /sse at most one event is ever
\* emitted; once the server has ended the stream exactly one has been, and the
\* end-of-stream message is the last message of the stream (nothing follows it).
\* A stream cut by the client's disconnect is not ended by the server.
C1_OneEventThenClosed ==
    \A r \in Requests :
        /\ Emitted(r) <= 1
        /\ StreamClosed(r) /\ IsSse(r) =>
              /\ Emitted(r) = 1
              /\ IsEnd(out[r][Len(out[r])])
              /\ \A i \in 1..(Len(out[r]) - 1) : ~IsEnd(out[r][i])
        /\ pc[r] = "closed" => StreamClosed(r)

C1_Witness ==
    \E r \in Requests : pc[r] = "closed" /\ StreamClosed(r) /\ Emitted(r) = 1

\* C2: the data field of every event emitted, read as JSON, is the structure
\* {"toolgroups": [{"name": "rag-dogs", "args": {"vector_db_ids": ["toy_faiss_db"]}}]}.
C2_PayloadIsTheLiteral ==
    \A r \in Requests : \A i \in EventsIn(out[r]) :
        /\ JsonEq(json_loads(DataField(out[r][i].lines)), PayloadJson)
        /\ Denote(json_loads(DataField(out[r][i].lines))) = PayloadStructure

C2_Witness ==
    \E r \in Requests : IsSse(r) /\ EventsIn(out[r]) # {} /\ pc[r] = "streaming"

\* C3: whatever the interleaving of the handling of several requests, a client
\* of GET /sse that stays connected has at every moment received a prefix of
\* the one response (start, the event with the fixed payload, end), and all of
\* it once its stream is closed.
C3_EachRequestItsOwnEvent ==
    \A r \in Requests : IsSse(r) =>
        /\ \A i \in EventsIn(ClientView(r)) :
              /\ i = 2
              /\ Text(DataField(ClientView(r)[i].lines)) = PayloadText
        /\ Complete(r) => Len(ClientView(r)) = 3 /\ Received(r) = 1

\* Two streams in flight at once: the later request is already answered in
\* full while the earlier one is between its event and its end.
C3_Witness ==
    \E a, b \in Requests :
        /\ a < b /\ IsSse(a) /\ Complete(b)
        /\ pc[a] = "streaming" /\ Received(a) = 1 /\ Received(b) = 1

\* C4: any two requests for GET /sse answered in full have the same response,
\* byte for byte, however many requests were handled before each; and every
\* response to GET /sse starts with status 200.
C4_SequentialResponsesIdentical ==
    /\ \A r \in Requests : IsSse(r) /\ out[r] # <<>> =>
          out[r][1].type = "start" /\ out[r][1].status = 200
    /\ \A q, r \in Requests : Complete(q) /\ Complete(r) =>
          /\ out[q][1] = out[r][1]
          /\ BodyBytes(out[q]) = BodyBytes(out[r])

\* r arrived after q had been answered in full, and has been answered too.
C4_Witness ==
    \E q, r \in Requests :
        /\ q \in prior[r] /\ Complete(q) /\ Complete(r)
        /\ BodyBytes(out[r]) = "data: " \o PayloadText \o "\r\n\r\n"

\* C5: when the server's tasks are scheduled fairly, every request for GET /sse
\* that has been accepted comes to the end of its stream and stays there: from
\* some moment on it is closed (or cancelled after its client's disconnect); no
\* stream is kept open.
C5_StreamTerminates ==
    \A r \in Requests : <>[](pc[r] \in {"idle", "closed", "aborted"})

C5_Witness ==
    \E r \in Requests : IsSse(r) /\ pc[r] = "closed" /\ gen[r] = 0 /\ delivered[r] = 3

\* C6: a response to GET /sse has media type text/event-stream, and its event
\* is one frame with a data line only (no event name, no id), whose data is the
\* JSON text.
C6_DataOnlyFrame ==
    \A r \in Requests : IsSse(r) =>
        /\ \A i \in 1..Len(out[r]) :
              out[r][i].type = "start" => out[r][i].media = "text/event-stream"
        /\ \A i \in EventsIn(out[r]) :
              /\ Len(out[r][i].lines) = 1
              /\ out[r][i].lines[1][1] = "data"
              /\ Wire(out[r][i].lines) = "data: " \o PayloadText \o "\r\n\r\n"

C6_Witness ==
    \E r \in Requests :
        /\ IsSse(r) /\ Received(r) = 1
        /\ ClientView(r)[1].media = "text/event-stream"
        /\ ClientView(r)[2].lines[1][1] = "data"

\* C7: once a client has disconnected nothing more is delivered to it, its
\* request is never retried or reported (at most one event is emitted, the task
\* does not crash), the disconnect and its detection change nothing but that
\* request's own state, and whenever some client has disconnected every other
\* request answered in full has its one event with the fixed payload.
DisconnectStep(r) ==
    \/ conn[r] = "open" /\ conn'[r] = "gone"
    \/ pc[r] # "aborted" /\ pc'[r] = "aborted"

OthersUntouched(r) ==
    /\ routes' = routes /\ module_globals' = module_globals
    /\ \A q \in Requests \ {r} :
          /\ pc'[q] = pc[q] /\ out'[q] = out[q] /\ delivered'[q] = delivered[q]
          /\ data'[q] = data[q] /\ gen'[q] = gen[q] /\ conn'[q] = conn[q]

C7_DisconnectIsLocal ==
    /\ [](\A r \in Requests : conn[r] = "gone" =>
            /\ Emitted(r) <= 1 /\ pc[r] # "crashed"
            /\ \A q \in Requests \ {r} : Complete(q) =>
                  /\ Received(q) = 1
                  /\ Text(DataField(ClientView(q)[2].lines)) = PayloadText)
    /\ [][\A r \in Requests :
            /\ conn[r] = "gone" => conn'[r] = "gone" /\ delivered'[r] = delivered[r]
            /\ DisconnectStep(r) => OthersUntouched(r)]_vars

\* A client left before its event was delivered and its request was cancelled,
\* while another request is answered in full.
C7_Witness ==
    \E r, q \in Requests :
        /\ r # q /\ IsSse(r) /\ conn[r] = "gone" /\ pc[r] = "aborted" /\ Received(r) = 0
        /\ Complete(q) /\ Received(q) = 1

\* C8: no request changes the state of the server: the route table and the
\* module's names are those of the import; `data` is bound to the literal only
\* while the handler's generator is alive and is released when the handling
\* of that request is over.
C8_ServerStateUnchanged ==
    /\ routes = AppRoutes
    /\ module_globals = ModuleNames
    /\ \A r \in Requests :
          /\ data[r] \in {Null, DataLiteral}
          /\ pc[r] \in Ended \cup {"idle", "accepted"} => data[r] = Null /\ gen[r] = 0

\* One request completed, one aborted, and the state is as at the start.
C8_Witness ==
    \E q, r \in Requests :
        /\ Complete(q) /\ IsSse(r) /\ pc[r] = "aborted"
        /\ routes = AppRoutes /\ module_globals = ModuleNames

====
